---- MODULE Spec2Model ----
(***************************************************************************)
(* Model of the reparenting window manager in src/lib.rs: the              *)
(* WindowManager struct (connection, root, clients), its run() method      *)
(* (registration on the root, the startup sweep under the server grab, the *)
(* event loop) and the handlers on_configure_request, on_map_request,      *)
(* on_unmap_notify, on_button_press with frame_window and unframe_window.  *)
(*                                                                         *)
(* The X server is modelled by the part of its state the requests of the   *)
(* manager change: the window tree (parent), the mapped windows, the live  *)
(* frame windows, the save set, the passive grabs and the geometry.  A     *)
(* panic (expect, unwrap, assert!, panic!) ends the process: the variable  *)
(* panic names the place and no action is enabled afterwards.              *)
(***************************************************************************)
EXTENDS Integers, Sequences, FiniteSets, TLC

(* ---------------------------------------------------------------- bounds *)

\* number of client (application) windows the server knows
NumClients == 2

\* number of identifiers the connection's generator hands out in one run
MaxFrames == 2

(* ------------------------------------------------------------- constants *)

\* xcb::NONE
NoWindow == 0

\* the root window of the default screen (WindowManager.root)
Root == 1

\* let border_width = 4;
border_width == 4

\* 2^16: the width of an i16 or u16 field; a u32 value is held as its two
\* 16-bit halves [hi, lo]
I16 == 65536

Clients == 2 .. (NumClients + 1)

\* the identifiers generate_id returns, in the order it returns them
FrameId(n) == NumClients + 1 + n

FrameIds == { FrameId(n) : n \in 1 .. MaxFrames }

Windows == {Root} \cup Clients \cup FrameIds

\* the x positions (i16) and widths (u16) the model draws for requests
XValues == {-1, 7}

WidthValues == {9}

\* xcb::CONFIG_WINDOW_X .. xcb::CONFIG_WINDOW_STACK_MODE
CONFIG_WINDOW_X == 1

CONFIG_WINDOW_Y == 2

CONFIG_WINDOW_WIDTH == 4

CONFIG_WINDOW_HEIGHT == 8

CONFIG_WINDOW_BORDER_WIDTH == 16

CONFIG_WINDOW_SIBLING == 32

CONFIG_WINDOW_STACK_MODE == 64

\* xcb::CW_BACK_PIXEL, xcb::CW_BORDER_PIXEL
CW_BACK_PIXEL == 2

CW_BORDER_PIXEL == 8

\* let border_color = 0xff0000; let bg_color = 0x0000ff; (as u32)
border_color == [ hi |-> 255, lo |-> 0 ]

bg_color == [ hi |-> 0, lo |-> 255 ]

\* the places where a request/reply call or a keysym lookup can fail
FrameFailures == {"none", "attrs", "geometry", "evmask", "keysym_F4", "keysym_Tab"}

(* ------------------------------------------------------------- variables *)

VARIABLES
    pc,               \* position in run(): "start", "sweep", "loop"
    panic,            \* "none", or the place where the process panicked
    clients,          \* WindowManager.clients: client window -> frame window
    existing,         \* existing_windows still to be framed by the sweep
    nextId,           \* number of identifiers generate_id has returned
    children,         \* server: the root's children when run() starts
    overrideRedirect, \* server: windows with the override-redirect attribute
    parent,           \* server: parent of each window (NoWindow: not created)
    mapped,           \* server: windows that are mapped
    frames,           \* server: live windows created by the manager
    saveSet,          \* server: the manager's save set
    grabs,            \* server: passive grabs registered on each window
    geom,             \* server: geometry of each window
    rootMask,         \* server: the manager is registered on the root
    serverGrabbed,    \* server: the manager holds the server grab
    reqs,             \* protocol requests issued by the last step, in order
    last              \* the last step taken, with its inputs

vars == << pc, panic, clients, existing, nextId, children, overrideRedirect,
           parent, mapped, frames, saveSet, grabs, geom, rootMask,
           serverGrabbed, reqs, last >>

(* --------------------------------------------------------------- helpers *)

\* the state the handlers read and write, as one record
State ==
    [ clients |-> clients, nextId |-> nextId, parent |-> parent,
      mapped |-> mapped, frames |-> frames, saveSet |-> saveSet,
      grabs |-> grabs, geom |-> geom, overrideRedirect |-> overrideRedirect,
      reqs |-> << >>, skipped |-> FALSE, panic |-> "none" ]

\* a protocol request: its name, the window it names, two arguments and
\* the value list (mask bit -> u32 value) of the requests that carry one
Req(name, window, a, b, values) ==
    [ req |-> name, window |-> window, a |-> a, b |-> b, values |-> values ]

NoValues == << >>

Log(s, r) == [ s EXCEPT !.reqs = Append(@, r) ]

Panic(s, why) == [ s EXCEPT !.panic = why ]

\* `as u32` of an i16, u16, u8 or u32 that fits 16 bits: sign extension
\* for a negative i16, zero extension otherwise
AsU32(x) ==
    IF x < 0 THEN [ hi |-> I16 - 1, lo |-> x + I16 ] ELSE [ hi |-> 0, lo |-> x ]

\* the server reads an INT16 field from the low 16 bits of the value
ServerI16(v) == IF v.lo >= I16 \div 2 THEN v.lo - I16 ELSE v.lo

\* the server reads a CARD16 field from the low 16 bits of the value
ServerU16(v) == v.lo

\* a window is viewable when it and all its ancestors are mapped
RECURSIVE Viewable(_, _)
Viewable(s, w) ==
    \/ w = Root
    \/ /\ w \in s.mapped
       /\ s.parent[w] # NoWindow
       /\ Viewable(s, s.parent[w])

\* attrs.map_state() of a window
MapState(s, w) ==
    IF w \notin s.mapped THEN "unmapped"
    ELSE IF Viewable(s, w) THEN "viewable"
    ELSE "unviewable"

\* HashMap::contains_key
ContainsKey(s, w) == w \in DOMAIN s.clients

\* HashMap::insert: the map afterwards
MapInsert(m, k, v) == [ x \in DOMAIN m \cup {k} |-> IF x = k THEN v ELSE m[x] ]

\* HashMap::remove: the map afterwards
MapRemove(m, k) == [ x \in DOMAIN m \ {k} |-> m[x] ]

\* the four grabs frame_window registers on the client window
FourGrabs == { "button1", "button3", "key_F4", "key_Tab" }

(* ------------------------------------------------- the server's requests *)

\* ConfigureWindow: the server applies the geometry bits of the value list;
\* a width or height of zero is a BadValue error and changes nothing
ServerConfigure(s, w, values) ==
    LET has(bit) == bit \in DOMAIN values
        g == s.geom[w]
        bad == \/ has(CONFIG_WINDOW_WIDTH) /\ ServerU16(values[CONFIG_WINDOW_WIDTH]) = 0
               \/ has(CONFIG_WINDOW_HEIGHT) /\ ServerU16(values[CONFIG_WINDOW_HEIGHT]) = 0
        g2 == [ x |-> IF has(CONFIG_WINDOW_X)
                      THEN ServerI16(values[CONFIG_WINDOW_X]) ELSE g.x,
                y |-> IF has(CONFIG_WINDOW_Y)
                      THEN ServerI16(values[CONFIG_WINDOW_Y]) ELSE g.y,
                width |-> IF has(CONFIG_WINDOW_WIDTH)
                          THEN ServerU16(values[CONFIG_WINDOW_WIDTH]) ELSE g.width,
                height |-> IF has(CONFIG_WINDOW_HEIGHT)
                           THEN ServerU16(values[CONFIG_WINDOW_HEIGHT]) ELSE g.height ]
    IN  IF bad \/ s.parent[w] = NoWindow THEN s ELSE [ s EXCEPT !.geom[w] = g2 ]

\* ReparentWindow(window, new_parent, x, y)
ServerReparent(s, w, p, x, y) ==
    [ s EXCEPT !.parent[w] = p, !.geom[w].x = x, !.geom[w].y = y ]

\* xcb::configure_window(connection, window, value_list)
configure_window(s, w, values) ==
    ServerConfigure(Log(s, Req("configure_window", w, 0, 0, values)), w, values)

\* xcb::map_window(connection, window)
map_window(s, w) ==
    [ Log(s, Req("map_window", w, 0, 0, NoValues)) EXCEPT !.mapped = @ \cup {w} ]

\* xcb::unmap_window(connection, window)
unmap_window(s, w) ==
    [ Log(s, Req("unmap_window", w, 0, 0, NoValues)) EXCEPT !.mapped = @ \ {w} ]

\* xcb::reparent_window(connection, window, parent, x, y)
reparent_window(s, w, p, x, y) ==
    ServerReparent(Log(s, Req("reparent_window", w, p, 0, NoValues)), w, p, x, y)

\* xcb::change_save_set(connection, mode, window)
change_save_set(s, mode, w) ==
    [ Log(s, Req("change_save_set_" \o mode, w, 0, 0, NoValues)) EXCEPT
        !.saveSet = IF mode = "insert" THEN @ \cup {w} ELSE @ \ {w} ]

\* xcb::destroy_window(connection, window): the window and, with it, every
\* window still inside it are destroyed
destroy_window(s, w) ==
    LET gone == {w} \cup { c \in Windows : s.parent[c] = w }
    IN  [ Log(s, Req("destroy_window", w, 0, 0, NoValues)) EXCEPT
            !.frames = @ \ gone,
            !.mapped = @ \ gone,
            !.parent = [ c \in Windows |-> IF c \in gone THEN NoWindow ELSE @[c] ] ]

\* xcb::create_window(connection, depth, wid, parent, x, y, width, height,
\* border_width, class, visual, value_list)
create_window(s, wid, p, g, border) ==
    [ Log(s, Req("create_window", wid, p, border, NoValues)) EXCEPT
        !.frames = @ \cup {wid},
        !.parent[wid] = p,
        !.geom[wid] = g ]

\* xcb::grab_button / xcb::grab_key (connection, owner_events, window, ...)
grab(s, w, what) ==
    [ Log(s, Req("grab_" \o what, w, 0, 0, NoValues)) EXCEPT
        !.grabs[w] = @ \cup {what} ]

(* ---------------------------------------------------------- frame_window *)

\* lines 181-241: the keysym lookups and the four grabs on the client
FrameGrabs(s, window, fail) ==
    LET s1 == grab(s, window, "button1")
        s2 == grab(s1, window, "button3")
        s3 == grab(s2, window, "key_F4")
        s4 == grab(s3, window, "key_Tab")
    IN  IF fail = "keysym_F4" THEN Panic(s2, "keysym")
        ELSE IF fail = "keysym_Tab" THEN Panic(s3, "keysym")
        ELSE s4

\* frame_window inserting (frame, client) instead of (client, frame)
FrameInsertSwapped(s, window, wid, fail) ==
    LET had == ContainsKey(s, wid)
        s1 == [ s EXCEPT !.clients = MapInsert(@, wid, window) ]
    IN  IF had THEN FrameGrabs(s1, window, fail) ELSE Panic(s1, "insert")

\* frame_window with the registry insertion left out
FrameInsertForgotten(s, window, wid, fail) == FrameGrabs(s, window, fail)

\* line 179: self.clients.insert(window, wid).unwrap(): insert returns the
\* previous value of the key, None when the key was absent, and unwrap
\* panics on None
FrameInsert(s, window, wid, fail) ==
    LET had == ContainsKey(s, window)
        s1 == [ s EXCEPT !.clients = MapInsert(@, window, wid) ]
    IN  IF had THEN FrameGrabs(s1, window, fail) ELSE Panic(s1, "insert")

\* frame_window with the save-set insertion of line 173 left out
FrameReparentNoSaveSet(s, window, wid, fail) ==
    LET s2 == reparent_window(s, window, wid, 0, 0)
        s3 == map_window(s2, wid)
    IN  FrameInsert(s3, window, wid, fail)

\* frame_window with the reparenting of the client left out
FrameReparentForgotten(s, window, wid, fail) ==
    LET s1 == change_save_set(s, "insert", window)
        s3 == map_window(s1, wid)
    IN  FrameInsert(s3, window, wid, fail)

\* lines 172-177: save set, reparent into the frame, map the frame
FrameReparent(s, window, wid, fail) ==
    LET s1 == change_save_set(s, "insert", window)
        s2 == reparent_window(s1, window, wid, 0, 0)
        s3 == map_window(s2, wid)
    IN  FrameInsert(s3, window, wid, fail)

\* frame_window with the result of request_check() at line 169 ignored
FrameCreateUnchecked(s, window, fail) ==
    LET wid == FrameId(s.nextId + 1)
        s1 == Log([ s EXCEPT !.nextId = @ + 1 ],
                  Req("get_geometry", window, 0, 0, NoValues))
        geo == s.geom[window]
        s2 == create_window(s1, wid, Root, geo, border_width)
        s3 == configure_window(s2, wid,
                  (CW_BORDER_PIXEL :> border_color) @@ (CW_BACK_PIXEL :> bg_color))
        s4 == Log(s3, Req("change_window_attributes", wid, 0, 0, NoValues))
    IN  IF fail = "geometry" THEN Panic(s1, "geometry")
        ELSE FrameReparent(s4, window, wid, fail)

\* lines 131-170: allocate the identifier, read the geometry, create the
\* frame, set its colours and its event mask
FrameCreate(s, window, fail) ==
    LET wid == FrameId(s.nextId + 1)
        s1 == Log([ s EXCEPT !.nextId = @ + 1 ],
                  Req("get_geometry", window, 0, 0, NoValues))
        geo == s.geom[window]
        s2 == create_window(s1, wid, Root, geo, border_width)
        s3 == configure_window(s2, wid,
                  (CW_BORDER_PIXEL :> border_color) @@ (CW_BACK_PIXEL :> bg_color))
        s4 == Log(s3, Req("change_window_attributes", wid, 0, 0, NoValues))
    IN  IF fail = "geometry" THEN Panic(s1, "geometry")
        ELSE IF fail = "evmask" THEN Panic(s4, "evmask")
        ELSE FrameReparent(s4, window, wid, fail)

\* frame_window applying the startup filter whatever created_before_wm is
FrameWindowAlwaysFilters(s, window, created_before_wm, fail) ==
    LET s1 == Log(s, Req("get_window_attributes", window, 0, 0, NoValues))
    IN  IF ContainsKey(s, window) THEN Panic(s, "assert")
        ELSE IF fail = "attrs" THEN Panic(s1, "attrs")
        ELSE IF window \in s.overrideRedirect \/ MapState(s, window) # "viewable"
        THEN [ s1 EXCEPT !.skipped = TRUE ]
        ELSE FrameCreate(s1, window, fail)

\* lines 117-129: fn frame_window(&mut self, window, created_before_wm)
FrameWindow(s, window, created_before_wm, fail) ==
    LET s1 == Log(s, Req("get_window_attributes", window, 0, 0, NoValues))
    IN  IF ContainsKey(s, window) THEN Panic(s, "assert")
        ELSE IF created_before_wm
        THEN IF fail = "attrs" THEN Panic(s1, "attrs")
             ELSE IF window \in s.overrideRedirect \/ MapState(s, window) # "viewable"
             THEN [ s1 EXCEPT !.skipped = TRUE ]
             ELSE FrameCreate(s1, window, fail)
        ELSE FrameCreate(s, window, fail)

(* -------------------------------------------------------- unframe_window *)

\* lines 254-269: fn unframe_window(&mut self, window)
UnframeWindow(s, window) ==
    LET frame == s.clients[window]
        s1 == unmap_window(s, frame)
        s2 == reparent_window(s1, window, Root, 0, 0)
        s3 == change_save_set(s2, "delete", window)
        s4 == destroy_window(s3, frame)
    IN  IF ~ContainsKey(s, window) THEN Panic(s, "unframe")
        ELSE [ s4 EXCEPT !.clients = MapRemove(@, window) ]

(* -------------------------------------------------------------- handlers *)

\* The events are those the server itself generates (an event sent by another
\* client carries the 0x80 bit in response_type and falls into `_ => continue`):
\* they name windows that exist, a map-request comes from an unmapped window
\* that is not override-redirect, a configure-request from a window that is
\* not override-redirect.

\* xcb::ConfigureRequestEvent: the fields the handler reads
ConfigureRequestEvents ==
    [ window : Windows, x : XValues, y : {0}, width : WidthValues,
      height : WidthValues, border_width : {0}, sibling : {NoWindow},
      stack_mode : {0} ]

\* xcb::MapRequestEvent: the field the handler reads
MapRequestEvents == [ window : Windows ]

\* xcb::UnmapNotifyEvent: the fields the handler reads
UnmapNotifyEvents == [ event : Windows, window : Windows ]

\* xcb::ButtonPressEvent: the window the press is reported on
ButtonPressEvents == [ event : Windows ]

\* lines 83-97: the value list on_configure_request builds from the event
ValueList(event) ==
    (CONFIG_WINDOW_X :> AsU32(event.x))
    @@ (CONFIG_WINDOW_Y :> AsU32(event.y))
    @@ (CONFIG_WINDOW_WIDTH :> AsU32(event.width))
    @@ (CONFIG_WINDOW_HEIGHT :> AsU32(event.height))
    @@ (CONFIG_WINDOW_BORDER_WIDTH :> AsU32(event.border_width))
    @@ (CONFIG_WINDOW_SIBLING :> AsU32(event.sibling))
    @@ (CONFIG_WINDOW_STACK_MODE :> AsU32(event.stack_mode))

\* on_configure_request framing a window it does not know yet
OnConfigureRequestFrames(s, event) ==
    LET value_list == ValueList(event)
        s1 == IF ContainsKey(s, event.window)
              THEN configure_window(s, s.clients[event.window], value_list)
              ELSE FrameWindow(s, event.window, FALSE, "none")
    IN  IF s1.panic # "none" THEN s1 ELSE configure_window(s1, Root, value_list)

\* lines 81-110: fn on_configure_request(&self, event)
OnConfigureRequest(s, event) ==
    LET value_list == ValueList(event)
        s1 == IF ContainsKey(s, event.window)
              THEN configure_window(s, s.clients[event.window], value_list)
              ELSE s
    IN  configure_window(s1, Root, value_list)

\* lines 112-115: fn on_map_request(&mut self, event)
OnMapRequest(s, event, fail) ==
    LET s1 == FrameWindow(s, event.window, FALSE, fail)
    IN  IF s1.panic # "none" THEN s1 ELSE map_window(s1, event.window)

\* on_unmap_notify without the contains_key test of line 245
OnUnmapNotifyNoKeyTest(s, event) ==
    IF event.event = Root THEN s
    ELSE UnframeWindow(s, event.window)

\* on_unmap_notify without its two early returns
OnUnmapNotifyUnguarded(s, event) == UnframeWindow(s, event.window)

\* lines 244-252: fn on_unmap_notify(&mut self, event)
OnUnmapNotify(s, event) ==
    IF ~ContainsKey(s, event.window) THEN s
    ELSE IF event.event = Root THEN s
    ELSE UnframeWindow(s, event.window)

\* on_button_press raising the window that was pressed
OnButtonPressRaises(s, event) ==
    configure_window(s, event.event, CONFIG_WINDOW_STACK_MODE :> AsU32(0))

\* lines 271-273: fn on_button_press(&self, event)
OnButtonPress(s, event) == s

(* ------------------------------------------------------------------ run *)

\* sequences over S without repetition
RECURSIVE Orders(_)
Orders(S) ==
    IF S = {} THEN { << >> }
    ELSE UNION { { << w >> \o q : q \in Orders(S \ {w}) } : w \in S }

\* the step recorded before run() has done anything
NoStep ==
    [ op |-> "none", window |-> NoWindow, event |-> NoWindow, values |-> NoValues,
      fail |-> "none", wasKey |-> FALSE, skipped |-> FALSE ]

Step(op, window, event, values, fail, s) ==
    [ op |-> op, window |-> window, event |-> event, values |-> values,
      fail |-> fail, wasKey |-> window \in DOMAIN clients, skipped |-> s.skipped ]

\* the state after a handler: the record it returns becomes the state
Apply(s) ==
    /\ clients' = s.clients
    /\ nextId' = s.nextId
    /\ parent' = s.parent
    /\ mapped' = s.mapped
    /\ frames' = s.frames
    /\ saveSet' = s.saveSet
    /\ grabs' = s.grabs
    /\ geom' = s.geom
    /\ reqs' = s.reqs
    /\ panic' = s.panic

\* lines 13-33: WindowManager::new(), before run(): the registry is empty;
\* the server holds some client windows, some of them children of the root
\* that are mapped, some of them override-redirect
Init ==
    /\ pc = "start"
    /\ panic = "none"
    /\ clients = << >>
    /\ existing = << >>
    /\ nextId = 0
    /\ children \in UNION { Orders(S) : S \in SUBSET Clients }
    /\ overrideRedirect \in SUBSET Clients
    /\ parent = [ w \in Windows |-> IF w \in Clients THEN Root ELSE NoWindow ]
    /\ mapped \in { {Root} \cup m : m \in SUBSET { children[i] : i \in DOMAIN children } }
    /\ frames = {}
    /\ saveSet = {}
    /\ grabs = [ w \in Windows |-> {} ]
    /\ geom = [ w \in Windows |-> [ x |-> w, y |-> w, width |-> w, height |-> w ] ]
    /\ rootMask = FALSE
    /\ serverGrabbed = FALSE
    /\ reqs = << >>
    /\ last = NoStep

\* lines 35-55: run() registers on the root, grabs the server and queries
\* the root's children
RunStart ==
    /\ pc = "start" /\ panic = "none"
    /\ \E fail \in {"none", "root_evmask", "query_tree"} :
        LET r1 == Req("change_window_attributes", Root, 0, 0, NoValues)
            r2 == Req("grab_server", NoWindow, 0, 0, NoValues)
            r3 == Req("query_tree", Root, 0, 0, NoValues)
        IN  /\ last' = [ NoStep EXCEPT !.op = "run", !.fail = fail ]
            /\ IF fail = "root_evmask"
               THEN /\ reqs' = << r1 >>
                    /\ panic' = "root_evmask"
                    /\ UNCHANGED << pc, existing, rootMask, serverGrabbed >>
               ELSE IF fail = "query_tree"
               THEN /\ reqs' = << r1, r2, r3 >>
                    /\ panic' = "query_tree"
                    /\ rootMask' = TRUE
                    /\ serverGrabbed' = TRUE
                    /\ UNCHANGED << pc, existing >>
               ELSE /\ reqs' = << r1, r2, r3 >>
                    /\ panic' = "none"
                    /\ rootMask' = TRUE
                    /\ serverGrabbed' = TRUE
                    /\ existing' = children
                    /\ pc' = "sweep"
    /\ UNCHANGED << clients, nextId, children, overrideRedirect, parent, mapped,
                    frames, saveSet, grabs, geom >>

\* lines 57-59: for window in existing_windows { self.frame_window(window, true) }
RunSweep ==
    /\ pc = "sweep" /\ panic = "none"
    /\ existing # << >>
    /\ nextId < MaxFrames
    /\ \E fail \in FrameFailures :
        LET window == Head(existing)
            s == FrameWindow(State, window, TRUE, fail)
        IN  /\ Apply(s)
            /\ last' = Step("frame_existing", window, NoWindow, NoValues, fail, s)
    /\ existing' = Tail(existing)
    /\ UNCHANGED << pc, children, overrideRedirect, rootMask, serverGrabbed >>

\* run() entering the event loop without releasing the server grab
RunEndSweepKeepsGrab ==
    /\ pc = "sweep" /\ panic = "none"
    /\ existing = << >>
    /\ pc' = "loop"
    /\ reqs' = << >>
    /\ last' = [ NoStep EXCEPT !.op = "ungrab_server" ]
    /\ UNCHANGED << panic, clients, existing, nextId, children, overrideRedirect,
                    parent, mapped, frames, saveSet, grabs, geom, rootMask,
                    serverGrabbed >>

\* line 61: xcb::ungrab_server, then the event loop starts
RunEndSweep ==
    /\ pc = "sweep" /\ panic = "none"
    /\ existing = << >>
    /\ pc' = "loop"
    /\ serverGrabbed' = FALSE
    /\ reqs' = << Req("ungrab_server", NoWindow, 0, 0, NoValues) >>
    /\ last' = [ NoStep EXCEPT !.op = "ungrab_server" ]
    /\ UNCHANGED << panic, clients, existing, nextId, children, overrideRedirect,
                    parent, mapped, frames, saveSet, grabs, geom, rootMask >>

\* lines 65-68: wait_for_event() returns None: expect() panics
WaitForEventError ==
    /\ pc = "loop" /\ panic = "none"
    /\ panic' = "wait_for_event"
    /\ reqs' = << >>
    /\ last' = [ NoStep EXCEPT !.op = "wait_for_event", !.fail = "wait_for_event" ]
    /\ UNCHANGED << pc, clients, existing, nextId, children, overrideRedirect,
                    parent, mapped, frames, saveSet, grabs, geom, rootMask,
                    serverGrabbed >>

\* line 71: xcb::CONFIGURE_REQUEST => self.on_configure_request(...)
ConfigureRequest ==
    /\ pc = "loop" /\ panic = "none"
    /\ \E e \in ConfigureRequestEvents :
        /\ e.window \in Clients \ overrideRedirect
        /\ LET s == OnConfigureRequest(State, e)
           IN  /\ Apply(s)
               /\ last' = Step("configure_request", e.window, NoWindow,
                                ValueList(e), "none", s)
    /\ UNCHANGED << pc, existing, children, overrideRedirect, rootMask, serverGrabbed >>

\* line 72: xcb::MAP_REQUEST => self.on_map_request(...)
MapRequest ==
    /\ pc = "loop" /\ panic = "none"
    /\ nextId < MaxFrames
    /\ \E e \in MapRequestEvents, fail \in FrameFailures \ {"attrs"} :
        /\ e.window \in Clients \ (mapped \cup overrideRedirect)
        /\ LET s == OnMapRequest(State, e, fail)
           IN  /\ Apply(s)
               /\ last' = Step("map_request", e.window, NoWindow, NoValues, fail, s)
    /\ UNCHANGED << pc, existing, children, overrideRedirect, rootMask, serverGrabbed >>

\* line 73: xcb::UNMAP_NOTIFY => self.on_unmap_notify(...)
UnmapNotify ==
    /\ pc = "loop" /\ panic = "none"
    /\ \E e \in UnmapNotifyEvents :
        /\ e.event \in {Root} \cup Clients \cup frames
        /\ e.window \in Clients \cup frames
        /\ LET s == OnUnmapNotify(State, e)
           IN  /\ Apply(s)
               /\ last' = Step("unmap_notify", e.window, e.event, NoValues, "none", s)
    /\ UNCHANGED << pc, existing, children, overrideRedirect, rootMask, serverGrabbed >>

\* line 74: xcb::BUTTON_PRESS => self.on_button_press(...)
ButtonPress ==
    /\ pc = "loop" /\ panic = "none"
    /\ \E e \in ButtonPressEvents :
        /\ e.event \in {Root} \cup Clients \cup frames
        /\ LET s == OnButtonPress(State, e)
           IN  /\ Apply(s)
               /\ last' = Step("button_press", e.event, e.event, NoValues, "none", s)
    /\ UNCHANGED << pc, existing, children, overrideRedirect, rootMask, serverGrabbed >>

\* line 75: _ => continue
OtherEvent ==
    /\ pc = "loop" /\ panic = "none"
    /\ reqs' = << >>
    /\ last' = [ NoStep EXCEPT !.op = "other" ]
    /\ UNCHANGED << pc, panic, clients, existing, nextId, children, overrideRedirect,
                    parent, mapped, frames, saveSet, grabs, geom, rootMask,
                    serverGrabbed >>

Next ==
    \/ RunStart
    \/ RunSweep
    \/ RunEndSweep
    \/ WaitForEventError
    \/ ConfigureRequest
    \/ MapRequest
    \/ UnmapNotify
    \/ ButtonPress
    \/ OtherEvent

Spec == Init /\ [][Next]_vars

(* ---------------------------------------------------------------- claims *)

\* the names of the requests of the last step, in order
ReqNames == [ i \in DOMAIN reqs |-> reqs[i].req ]

\* the last step called frame_window(last.window, _)
FrameCalled == last.op \in {"frame_existing", "map_request"}

\* the manager is between handlers: the sweep is over, no handler panicked
BetweenHandlers == pc = "loop" /\ panic = "none"

\* the identifiers the generator has handed out
Generated == { FrameId(n) : n \in 1 .. nextId }

\* C1: when frame_window is called for a window that is not a key of the
\* registry and is not skipped by the startup filter, and no request and no
\* keysym lookup fails, the call runs to completion without ending the
\* process, the window is a key of the registry afterwards and the four
\* grabs are registered on it.
C1_FrameCompletes ==
    (FrameCalled /\ ~last.wasKey /\ ~last.skipped /\ last.fail = "none")
        => /\ panic = "none"
           /\ last.window \in DOMAIN clients
           /\ grabs[last.window] = FourGrabs

\* C3: frame_window(w) followed by unframe_window(w): once frame_window has
\* registered w the manager goes on to run unframe_window(w), which leaves w
\* a child of the root at (0,0), the registry without w and no frame alive.
C3_RoundTrip ==
    \A w \in Windows :
        (FrameCalled /\ last.window = w /\ w \in DOMAIN clients)
            => /\ panic = "none"
               /\ LET s == UnframeWindow(State, w)
                  IN  /\ s.parent[w] = Root
                      /\ s.geom[w].x = 0 /\ s.geom[w].y = 0
                      /\ w \notin DOMAIN s.clients
                      /\ s.frames = {}

\* the startup sweep is over: it ran to its end, or frame_window stopped it
\* although every request succeeded
SweepOver ==
    \/ pc = "loop" /\ last.op = "ungrab_server"
    \/ pc = "sweep" /\ panic = "insert"

\* C4: after the startup sweep every override-redirect child of the root
\* and every child that is not viewable is unregistered, and every child
\* that is viewable and not override-redirect is registered with a frame.
C4_StartupFilter ==
    SweepOver =>
        \A i \in DOMAIN children :
            LET w == children[i]
            IN  IF w \in overrideRedirect \/ w \notin mapped
                THEN w \notin DOMAIN clients
                ELSE w \in DOMAIN clients /\ clients[w] \in frames

\* C5: a configure-request reconfigures the window named in the request with
\* the requested values; the only other window it reconfigures is the frame
\* of that window when the window is registered; the registry is unchanged.
C5_ConfigureTarget ==
    last.op = "configure_request" =>
        /\ \E i \in DOMAIN reqs :
              /\ reqs[i].req = "configure_window"
              /\ reqs[i].window = last.window
              /\ reqs[i].values = last.values
        /\ \A i \in DOMAIN reqs :
              \/ reqs[i].window = last.window
              \/ last.wasKey /\ reqs[i].window = clients[last.window]

C8_MapRequest ==
    (last.op = "map_request" /\ last.fail = "none")
        => /\ panic = "none"
           /\ reqs # << >>
           /\ reqs[Len(reqs)].req = "map_window"
           /\ reqs[Len(reqs)].window = last.window
           /\ last.wasKey => Len(reqs) = 1

\* C9: with one pre-existing viewable window A that is not
\* override-redirect, after the sweep has framed A the registry is exactly
\* {A: F1}, F1 is mapped, A is inside F1 and the manager is still running.
C9_Scenario ==
    \A a \in Clients :
        (/\ children = << a >>
         /\ a \in mapped /\ a \notin overrideRedirect
         /\ pc # "start" /\ existing = << >>
         /\ panic \in {"none", "insert"})
            => /\ clients = (a :> FrameId(1))
               /\ FrameId(1) \in mapped
               /\ parent[a] = FrameId(1)
               /\ panic = "none"

C12_NoEffectEvents ==
    [][ last'.op \in {"button_press", "other"}
            => /\ reqs' = << >>
               /\ clients' = clients
               /\ panic' = "none"
               /\ pc' = "loop" ]_vars

C12_Witness ==
    /\ last.op = "button_press"
    /\ last.window \in Clients
    /\ BetweenHandlers

\* the requests of a frame_window call that is not skipped, in the order the
\* claim gives them (generate_id is no request)
FrameSteps ==
    << "get_geometry", "create_window", "configure_window",
       "change_window_attributes", "change_save_set_insert", "reparent_window",
       "map_window", "grab_button1", "grab_button3", "grab_key_F4",
       "grab_key_Tab" >>

\* C14: a frame_window call that is not skipped and in which nothing fails
\* performs, in this order: read the geometry, create the frame under the
\* root with border width 4, set the decoration and the event mask, insert
\* the client into the save set, reparent it into the frame at (0,0), map the
\* frame, insert the registry entry, register the four grabs.
C14_FrameOrder ==
    (FrameCalled /\ ~last.wasKey /\ ~last.skipped /\ last.fail = "none") =>
        /\ ReqNames = IF last.op = "frame_existing"
                      THEN << "get_window_attributes" >> \o FrameSteps
                      ELSE FrameSteps
        /\ \E i \in DOMAIN reqs :
              /\ reqs[i].req = "create_window"
              /\ reqs[i].a = Root
              /\ reqs[i].b = 4
        /\ last.window \in DOMAIN clients

HandlerOps == {"configure_request", "map_request", "unmap_notify", "button_press"}

\* position of the first request named n in the log of the last step, 0 if none
FirstReq(n) ==
    IF \E i \in DOMAIN reqs : reqs[i].req = n
    THEN CHOOSE i \in DOMAIN reqs :
            /\ reqs[i].req = n
            /\ \A j \in DOMAIN reqs : reqs[j].req = n => i <= j
    ELSE 0

\* C16: the root's children are enumerated and every enumerated window is
\* framed while the server grab is held; the grab is released before the
\* event loop retrieves its first event, and no handler runs while it is held.
C16_ServerGrab ==
    /\ pc = "sweep" => serverGrabbed
    /\ last.op = "frame_existing" => serverGrabbed
    /\ (last.op = "run" /\ FirstReq("query_tree") # 0)
          => /\ FirstReq("grab_server") # 0
             /\ FirstReq("grab_server") < FirstReq("query_tree")
    /\ pc = "loop" => ~serverGrabbed
    /\ last.op \in HandlerOps => ~serverGrabbed

C16_Witness ==
    /\ last.op \in HandlerOps
    /\ children # << >>
    /\ ~serverGrabbed
    /\ pc = "loop"

C18_SkipIsNoop ==
    [][ /\ (last'.op = "frame_existing" /\ last'.skipped)
            => /\ ReqNames' = << "get_window_attributes" >>
               /\ nextId' = nextId
               /\ frames' = frames
               /\ saveSet' = saveSet
               /\ parent' = parent
               /\ mapped' = mapped
               /\ grabs' = grabs
               /\ clients' = clients
               /\ panic' = "none"
        /\ last'.op = "map_request"
            => /\ ~last'.skipped
               /\ \A i \in DOMAIN reqs' : reqs'[i].req # "get_window_attributes" ]_vars

C18_Witness ==
    /\ last.op = "frame_existing"
    /\ last.skipped
    /\ last.window \in overrideRedirect \cap mapped
    /\ panic = "none"

====
